---- MODULE Spec2Model ----
(***************************************************************************)
(* Model of keri.vdr.viring.Registry: the eight named sub databases of a   *)
(* Verifiable Issuance(Revocation) Registry, their accessors, and the      *)
(* replay generator clonePreIter.                                          *)
(*                                                                         *)
(* Byte strings are sequences of byte values.  A value that may be None    *)
(* is a sequence of length 0 (None) or 1 (the value).                      *)
(***************************************************************************)
EXTENDS Integers, Sequences, FiniteSets, TLC

VARIABLES tvts, tels, ancs, tibs, baks, oots, twes, taes,
          it, snap, last, nw, firstPut, putsOnly, bakCalls

vars == <<tvts, tels, ancs, tibs, baks, oots, twes, taes,
          it, snap, last, nw, firstPut, putsOnly, bakCalls>>

(* ------------------------------ bounds --------------------------------- *)

\* number of write calls in one behaviour: of any sub DB, of the single
\* value sub DBs, of .tibs, of .baks, around a replay, of writes
\* followed by deletes, around reads, and of ingestions and sweeps
MaxOps == 1
MaxSvOps == 2
MaxTibOps == 3
MaxBakOps == 3
MaxCloneOps == 2
MaxDelOps == 2
MaxReadOps == 1
MaxEscrowOps == 4

\* identifier prefixes, sequence / first seen ordinals, event digests
Pres == {1, 2}
Ons == {0, 1}
Digs == {1, 2}

\* serialized events; the empty byte string is a value the store accepts
Raws == { <<>>, <<123, 125>>, <<91, 93>> }
\* indexed witness signatures
Sigs == { <<65, 65, 65, 65>>, <<66, 66>> }
\* anchor values
Couples == { <<>>, <<48, 48>> }
\* backer prefixes
Backers == { <<67>>, <<65>>, <<66>> }

None == <<>>
Some(v) == <<v>>

\* what is known of the last accessor called, before any call
NoCall == [op |-> "", ret |-> <<>>]

(* ------------------------- keys (keri.db.dbing) ------------------------ *)

\* pre + b'.' + dig
dgKey(pre, dig) == <<pre, dig>>
\* pre + b'.' + b'%032x' % sn : fixed width, so key order is numeric order
snKey(pre, sn) == <<pre, sn>>

DgKeys == { dgKey(p, d) : p \in Pres, d \in Digs }
SnKeys == { snKey(p, n) : p \in Pres, n \in Ons }

\* lexicographic order of byte strings, the order of keys and of dups
RECURSIVE LexLess(_, _)
LexLess(a, b) ==
    IF b = <<>> THEN FALSE
    ELSE IF a = <<>> THEN TRUE
    ELSE IF Head(a) # Head(b) THEN Head(a) < Head(b)
    ELSE LexLess(Tail(a), Tail(b))

\* the members of a set of byte strings in ascending lexicographic order
RECURSIVE SortedSeq(_)
SortedSeq(S) ==
    IF S = {} THEN <<>>
    ELSE LET m == CHOOSE x \in S : \A y \in S \ {x} : LexLess(x, y)
         IN <<m>> \o SortedSeq(S \ {m})

(* ------------------ single value sub DBs (LMDBer) ---------------------- *)

putVal(db, key, val) ==
    IF key \in DOMAIN db
    THEN [ret |-> FALSE, db |-> db]
    ELSE [ret |-> TRUE, db |-> (key :> val) @@ db]

setVal(db, key, val) ==
    [ret |-> TRUE, db |-> (key :> val) @@ db]

getVal(db, key) ==
    IF key \in DOMAIN db THEN Some(db[key]) ELSE None

delVal(db, key) ==
    IF key \in DOMAIN db
    THEN [ret |-> TRUE, db |-> [k \in DOMAIN db \ {key} |-> db[k]]]
    ELSE [ret |-> FALSE, db |-> db]

(* ----------------- ordinal keyed iteration (LMDBer) -------------------- *)

onKey(pre, on) == snKey(pre, on)

\* the leading keys that still belong to prefix pre
RECURSIVE TakePre(_, _)
TakePre(keys, pre) ==
    IF keys = <<>> \/ Head(keys)[1] # pre THEN <<>>
    ELSE <<Head(keys)>> \o TakePre(Tail(keys), pre)

\* cursor.set_range(onKey(pre, on)), then iternext until the prefix changes
OrdKeysPre(db, pre, on) ==
    LET keys == SortedSeq(DOMAIN db)
        from == SelectSeq(keys, LAMBDA k : ~LexLess(k, onKey(pre, on)))
    IN TakePre(from, pre)

\* the (on, val) duples the iterator yields, in order
getAllOrdItemPreIter(db, pre, on) ==
    LET ks == OrdKeysPre(db, pre, on)
    IN [i \in 1..Len(ks) |-> <<ks[i][2], db[ks[i]]>>]

cntValsAllPre(db, pre, on) == Len(OrdKeysPre(db, pre, on))

(* ------------- dupsort sub DBs, lexicographic (LMDBer) ----------------- *)

getVals(db, key) == SortedSeq(db[key])

\* the dups the iterator yields, in cursor order
getValsIter(db, key) == SortedSeq(db[key])

cntVals(db, key) == Cardinality(db[key])

addVal(db, key, val) ==
    IF val \in db[key]
    THEN [ret |-> FALSE, db |-> db]
    ELSE [ret |-> TRUE, db |-> [db EXCEPT ![key] = @ \cup {val}]]

putVals(db, key, vals) ==
    [ret |-> TRUE,
     db |-> [db EXCEPT ![key] = @ \cup { vals[i] : i \in 1..Len(vals) }]]

\* val = b'' deletes every dup at key
delVals(db, key, val) ==
    IF val = <<>>
    THEN [ret |-> db[key] # {}, db |-> [db EXCEPT ![key] = {}]]
    ELSE [ret |-> val \in db[key], db |-> [db EXCEPT ![key] = @ \ {val}]]

(* ----------- dupsort sub DBs, insertion ordered (LMDBer) --------------- *)

\* a stored dup is the ordering proem followed by the value; the proem is
\* one element here, compared as the fixed width hex number it stands for
ProemOf(item) == Head(item)
StripProem(item) == Tail(item)

getIoVals(db, key) ==
    LET items == SortedSeq(db[key])
    IN [i \in 1..Len(items) |-> StripProem(items[i])]

cntIoVals(db, key) == Cardinality(db[key])

\* one more than the proem of the last dup at key, 0 when there is none
NextIdx(db, key) ==
    IF db[key] = {} THEN 0
    ELSE 1 + ProemOf(CHOOSE x \in db[key] : \A y \in db[key] : ProemOf(y) <= ProemOf(x))

addIoVal(db, key, val) ==
    IF \E x \in db[key] : StripProem(x) = val
    THEN [ret |-> FALSE, db |-> db]
    ELSE [ret |-> TRUE,
          db |-> [db EXCEPT ![key] = @ \cup { <<NextIdx(db, key)>> \o val }]]

RECURSIVE putIoVals(_, _, _)
putIoVals(db, key, vals) ==
    IF vals = <<>> THEN [ret |-> FALSE, db |-> db]
    ELSE LET one == addIoVal(db, key, Head(vals))
             rest == putIoVals(one.db, key, Tail(vals))
         IN [ret |-> one.ret \/ rest.ret, db |-> rest.db]

delIoVals(db, key) ==
    [ret |-> db[key] # {}, db |-> [db EXCEPT ![key] = {}]]

delIoVal(db, key, val) ==
    [ret |-> \E x \in db[key] : StripProem(x) = val,
     db |-> [db EXCEPT ![key] = { x \in @ : StripProem(x) # val }]]

(* -------------------- counters (keri.core.coring) ---------------------- *)

\* second character of the counter codes of CtrDex
WitnessIdxSigs == 66
SealSourceCouples == 71
AttachedMaterialQuadlets == 86

\* the Base64 URL safe character of a six bit value
B64Chr(n) ==
    IF n < 26 THEN 65 + n
    ELSE IF n < 52 THEN 97 + (n - 26)
    ELSE IF n < 62 THEN 48 + (n - 52)
    ELSE IF n = 62 THEN 45 ELSE 95

\* Counter(code, count).qb64b: '-', the code letter, two Base64 digits
Counter(code, count) ==
    <<45, code, B64Chr((count \div 64) % 64), B64Chr(count % 64)>>

(* ====================== Registry (keri.vdr.viring) ===================== *)

(* --------------------------- .tvts accessors --------------------------- *)

\* putTvt calling the overwriting write
putTvt_overwrites(key, val) == setVal(tvts, key, val)
putTvt(key, val) == putVal(tvts, key, val)
\* setTvt calling the write that keeps an existing value
setTvt_keeps(key, val) == putVal(tvts, key, val)
setTvt(key, val) == setVal(tvts, key, val)
\* getTvt answering empty bytes where there is no entry
getTvt_emptyForNone(key) ==
    IF key \in DOMAIN tvts THEN Some(tvts[key]) ELSE Some(<<>>)
getTvt(key) == getVal(tvts, key)
\* delTvt reporting True whatever it finds
delTvt_true(key) == [ret |-> TRUE, db |-> delVal(tvts, key).db]
delTvt(key) == delVal(tvts, key)

(* --------------------------- .tels accessors --------------------------- *)

putTel(key, val) == putVal(tels, key, val)
setTel(key, val) == setVal(tels, key, val)
getTel(key) == getVal(tels, key)
delTel(key) == delVal(tels, key)
getTelItemPreIter(pre, fn) == getAllOrdItemPreIter(tels, pre, fn)
\* cntTels counting from the first entry of the prefix
cntTels_all(pre, fn) == cntValsAllPre(tels, pre, 0)
cntTels(pre, fn) == cntValsAllPre(tels, pre, fn)

(* --------------------------- .tibs accessors --------------------------- *)

\* getTibs reading .tibs as an insertion ordered sub DB
getTibs_io(key) == getIoVals(tibs, key)
getTibs(key) == getVals(tibs, key)
getTibsIter(key) == getValsIter(tibs, key)
putTibs(key, vals) == putVals(tibs, key, vals)
\* addTib calling the bulk write, which reports True whatever it finds
addTib_bulk(key, val) == putVals(tibs, key, <<val>>)
addTib(key, val) == addVal(tibs, key, val)
cntTibs(key) == cntVals(tibs, key)
delTibs(key, val) == delVals(tibs, key, val)

(* ------------------ .twes / .taes / .oots accessors -------------------- *)

putTwe(key, val) == putVal(twes, key, val)
setTwe(key, val) == setVal(twes, key, val)
getTwe(key) == getVal(twes, key)
delTwe(key) == delVal(twes, key)

putTae(key, val) == putVal(taes, key, val)
setTae(key, val) == setVal(taes, key, val)
getTae(key) == getVal(taes, key)
delTae(key) == delVal(taes, key)

putOot(key, val) == putVal(oots, key, val)
setOot(key, val) == setVal(oots, key, val)
getOot(key) == getVal(oots, key)
delOot(key) == delVal(oots, key)

(* --------------------------- .ancs accessors --------------------------- *)

putAnc(key, val) == putVal(ancs, key, val)
setAnc(key, val) == setVal(ancs, key, val)
getAnc(key) == getVal(ancs, key)
delAnc(key) == delVal(ancs, key)

(* --------------------------- .baks accessors --------------------------- *)

\* putBaks reporting True whatever was added
putBaks_bulk(key, vals) == [ret |-> TRUE, db |-> putIoVals(baks, key, vals).db]
putBaks(key, vals) == putIoVals(baks, key, vals)
\* addBak writing every value under the same ordering proem
addBak_sameProem(key, val) ==
    IF \E x \in baks[key] : StripProem(x) = val
    THEN [ret |-> FALSE, db |-> baks]
    ELSE [ret |-> TRUE, db |-> [baks EXCEPT ![key] = @ \cup { <<0>> \o val }]]
\* addBak looking for the value with its proem among the dups
addBak_tagged(key, val) ==
    LET item == <<NextIdx(baks, key)>> \o val
    IN IF item \in baks[key]
       THEN [ret |-> FALSE, db |-> baks]
       ELSE [ret |-> TRUE, db |-> [baks EXCEPT ![key] = @ \cup {item}]]
addBak(key, val) == addIoVal(baks, key, val)
getBaks(key) == getIoVals(baks, key)
cntBaks(key) == cntIoVals(baks, key)
delBaks(key) == delIoVals(baks, key)
delBak(key, val) == delIoVal(baks, key, val)

(* ----------------------------- clonePreIter ---------------------------- *)

\* bytearray.extend of each member in turn
RECURSIVE Extend(_)
Extend(seqs) ==
    IF seqs = <<>> THEN <<>> ELSE Head(seqs) \o Extend(Tail(seqs))

\* indexed backer signatures of the event, with their counter
TibsAtc(dgkey) ==
    LET sigs == getTibs(dgkey)
    IN IF sigs # <<>>
       THEN Counter(WitnessIdxSigs, Len(sigs)) \o Extend(sigs)
       ELSE <<>>

\* the anchor tested for truth instead of for None
AncAtc_truthy(dgkey) ==
    LET couple == getAnc(dgkey)
    IN IF couple # None /\ couple[1] # <<>>
       THEN Counter(SealSourceCouples, 1) \o couple[1]
       ELSE <<>>

\* source seal couple of the event, with its counter
AncAtc(dgkey) ==
    LET couple == getAnc(dgkey)
    IN IF couple # None
       THEN Counter(SealSourceCouples, 1) \o couple[1]
       ELSE <<>>

\* the loop body without the test of the attachment size
cloneMsg_truncates(pre, dig) ==
    LET dgkey == dgKey(pre, dig)
        raw == getTvt(dgkey)
        atc == TibsAtc(dgkey) \o AncAtc(dgkey)
    IN IF raw = None \/ raw[1] = <<>>
       THEN [err |-> "MissingEntryError", msg |-> <<>>]
       ELSE [err |-> "",
             msg |-> raw[1]
                     \o Counter(AttachedMaterialQuadlets, Len(atc) \div 4)
                     \o atc]

\* one turn of the loop body for the item (fn, dig):
\* the message it yields, or the exception it raises
cloneMsg(pre, dig) ==
    LET dgkey == dgKey(pre, dig)
        raw == getTvt(dgkey)
        atc == TibsAtc(dgkey) \o AncAtc(dgkey)
    IN IF raw = None \/ raw[1] = <<>>
       THEN [err |-> "MissingEntryError", msg |-> <<>>]
       ELSE IF Len(atc) % 4 # 0
       THEN [err |-> "ValueError", msg |-> <<>>]
       ELSE [err |-> "",
             msg |-> raw[1]
                     \o Counter(AttachedMaterialQuadlets, Len(atc) \div 4)
                     \o atc]

\* the items from the first whose event is stored
RECURSIVE SkipMissing(_, _)
SkipMissing(pre, items) ==
    IF items = <<>> \/ getTvt(dgKey(pre, Head(items)[2])) # None THEN items
    ELSE SkipMissing(pre, Tail(items))

\* a missing event passed over instead of raised
cloneNext_skip(g) ==
    LET all == IF g.pc = "created"
               THEN getTelItemPreIter(g.pre, g.fn)
               ELSE g.items
        items == SkipMissing(g.pre, all)
    IN IF items = <<>>
       THEN [g EXCEPT !.pc = "done", !.items = <<>>]
       ELSE LET r == cloneMsg(g.pre, Head(items)[2])
            IN IF r.err # ""
               THEN [g EXCEPT !.pc = "error", !.err = r.err, !.items = <<>>]
               ELSE [g EXCEPT !.pc = "running",
                              !.items = Tail(items),
                              !.seen = Append(@, Head(items)),
                              !.out = Append(@, r.msg)]

\* the whole pass built by the first next(): an entry that cannot be
\* framed anywhere in the pass raises at once
cloneNext_eager(g) ==
    LET items == IF g.pc = "created"
                 THEN getTelItemPreIter(g.pre, g.fn)
                 ELSE g.items
        bad == { i \in 1..Len(items) : cloneMsg(g.pre, items[i][2]).err # "" }
    IN IF items = <<>>
       THEN [g EXCEPT !.pc = "done", !.items = <<>>]
       ELSE IF g.pc = "created" /\ bad # {}
       THEN [g EXCEPT !.pc = "error",
                      !.err = cloneMsg(g.pre,
                                 items[CHOOSE i \in bad :
                                          \A j \in bad : i <= j][2]).err,
                      !.items = <<>>]
       ELSE LET r == cloneMsg(g.pre, Head(items)[2])
            IN IF r.err # ""
               THEN [g EXCEPT !.pc = "error", !.err = r.err, !.items = <<>>]
               ELSE [g EXCEPT !.pc = "running",
                              !.items = Tail(items),
                              !.seen = Append(@, Head(items)),
                              !.out = Append(@, r.msg)]

\* the generator after one more next(): the tels cursor is opened by the
\* first next() and read from there on; the event, its signatures and its
\* anchor are read from the sub DBs when the item is reached
cloneNext(g) ==
    LET items == IF g.pc = "created"
                 THEN getTelItemPreIter(g.pre, g.fn)
                 ELSE g.items
    IN IF items = <<>>
       THEN [g EXCEPT !.pc = "done", !.items = <<>>]
       ELSE LET r == cloneMsg(g.pre, Head(items)[2])
            IN IF r.err # ""
               THEN [g EXCEPT !.pc = "error", !.err = r.err, !.items = <<>>]
               ELSE [g EXCEPT !.pc = "running",
                              !.items = Tail(items),
                              !.seen = Append(@, Head(items)),
                              !.out = Append(@, r.msg)]

(* =============================== state ================================= *)

\* tvts, tels, ancs, oots, twes, taes : key -> value, for the keys present
\* tibs, baks : key -> set of dups at the key
\* it        : the generator clonePreIter returned, with what it yielded
\* snap      : the sub DBs as they were when the generator opened its cursor
\* last      : the last accessor called and what it returned
\* nw        : number of write calls made
\* firstPut  : value of the first put to each (table, key), among the puts
\*             made before any set or del, kept until the write that
\*             follows the first set or del; putsOnly tells whether no set
\*             or del was made yet
\* bakCalls  : the distinct values handed to addBak / putBaks per key, in
\*             the order of their first call, while nothing was deleted there

\* the keys the accessors are called with
WrDgKeys == { dgKey(1, 1), dgKey(1, 2) }

WrSnKeys == { snKey(1, 0), snKey(1, 1) }

EmptyDb == [k \in {} |-> <<>>]

NoDups == [k \in DgKeys |-> {}]

NoGen == [pc |-> "none", pre |-> 0, fn |-> 0, items |-> <<>>,
          seen |-> <<>>, out |-> <<>>, err |-> ""]

Store == [tvts |-> tvts, tels |-> tels, tibs |-> tibs, ancs |-> ancs]

NoStore == [tvts |-> EmptyDb, tels |-> EmptyDb, tibs |-> NoDups, ancs |-> EmptyDb]


\* what does not depend on the content of the sub DBs
InitRest ==
    /\ it = NoGen
    /\ snap = NoStore
    /\ last = NoCall
    /\ nw = 0
    /\ firstPut = EmptyDb
    /\ bakCalls = [k \in DgKeys |-> [clean |-> TRUE, vals |-> <<>>]]

\* a registry opened on a new database
Init ==
    /\ tvts = EmptyDb /\ tels = EmptyDb /\ ancs = EmptyDb
    /\ oots = EmptyDb /\ twes = EmptyDb /\ taes = EmptyDb
    /\ tibs = NoDups
    /\ baks = NoDups
    /\ putsOnly = TRUE
    /\ InitRest

\* bookkeeping shared by the write calls
Called(op, ret) ==
    /\ nw' = nw + 1
    /\ last' = [op |-> op, ret |-> ret]
    /\ UNCHANGED <<it, snap>>

\* bookkeeping shared by the read calls
Read(op, ret) ==
    /\ last' = [op |-> op, ret |-> ret]
    /\ UNCHANGED <<tvts, tels, ancs, tibs, baks, oots, twes, taes,
                   it, snap, nw, firstPut, putsOnly, bakCalls>>

NotePut(tbl, key, val) ==
    /\ putsOnly' = putsOnly
    /\ firstPut' = IF ~ putsOnly THEN EmptyDb
                   ELSE IF <<tbl, key>> \notin DOMAIN firstPut
                   THEN (<<tbl, key>> :> val) @@ firstPut
                   ELSE firstPut
    /\ UNCHANGED bakCalls

NoteOverwrite ==
    /\ putsOnly' = FALSE
    /\ firstPut' = IF putsOnly THEN firstPut ELSE EmptyDb
    /\ UNCHANGED bakCalls

NoteDup == UNCHANGED <<firstPut, putsOnly, bakCalls>>

(* ------------------------------ .tvts ---------------------------------- *)

PutTvtAt(key, val) ==
    /\ Called("putTvt", putTvt(key, val).ret)
    /\ NotePut("tvts", key, val)
    /\ tvts' = putTvt(key, val).db
    /\ UNCHANGED <<tels, ancs, tibs, baks, oots, twes, taes>>

PutTvt == \E key \in WrDgKeys, val \in Raws : PutTvtAt(key, val)

SetTvtAt(key, val) ==
    /\ Called("setTvt", setTvt(key, val).ret)
    /\ NoteOverwrite
    /\ tvts' = setTvt(key, val).db
    /\ UNCHANGED <<tels, ancs, tibs, baks, oots, twes, taes>>

SetTvt == \E key \in WrDgKeys, val \in Raws : SetTvtAt(key, val)

GetTvtAt(key) == Read("getTvt", getTvt(key))

GetTvt == \E key \in WrDgKeys : GetTvtAt(key)

DelTvtAt(key) ==
    /\ Called("delTvt", delTvt(key).ret)
    /\ NoteOverwrite
    /\ tvts' = delTvt(key).db
    /\ UNCHANGED <<tels, ancs, tibs, baks, oots, twes, taes>>

DelTvt == \E key \in WrDgKeys : DelTvtAt(key)

(* ------------------------------ .tels ---------------------------------- *)

PutTelAt(key, val) ==
    /\ Called("putTel", putTel(key, val).ret)
    /\ NotePut("tels", key, val)
    /\ tels' = putTel(key, val).db
    /\ UNCHANGED <<tvts, ancs, tibs, baks, oots, twes, taes>>

PutTel == \E key \in WrSnKeys, val \in Digs : PutTelAt(key, val)

SetTelAt(key, val) ==
    /\ Called("setTel", setTel(key, val).ret)
    /\ NoteOverwrite
    /\ tels' = setTel(key, val).db
    /\ UNCHANGED <<tvts, ancs, tibs, baks, oots, twes, taes>>

SetTel == \E key \in WrSnKeys, val \in Digs : SetTelAt(key, val)

GetTelAt(key) == Read("getTel", getTel(key))

GetTel == \E key \in WrSnKeys : GetTelAt(key)

\* delTel that also drops the event record its entry pointed to
DelTelAt_dropsEvent(key) ==
    /\ Called("delTel", delTel(key).ret)
    /\ NoteOverwrite
    /\ tels' = delTel(key).db
    /\ tvts' = IF key \in DOMAIN tels
               THEN delVal(tvts, dgKey(key[1], tels[key])).db
               ELSE tvts
    /\ UNCHANGED <<ancs, tibs, baks, oots, twes, taes>>

DelTelAt(key) ==
    /\ Called("delTel", delTel(key).ret)
    /\ NoteOverwrite
    /\ tels' = delTel(key).db
    /\ UNCHANGED <<tvts, ancs, tibs, baks, oots, twes, taes>>

DelTel == \E key \in WrSnKeys : DelTelAt(key)

(* ------------------------------ .twes ---------------------------------- *)

PutTweAt(key, val) ==
    /\ Called("putTwe", putTwe(key, val).ret)
    /\ NotePut("twes", key, val)
    /\ twes' = putTwe(key, val).db
    /\ UNCHANGED <<tvts, tels, ancs, tibs, baks, oots, taes>>

PutTwe == \E key \in WrSnKeys, val \in Digs : PutTweAt(key, val)

SetTweAt(key, val) ==
    /\ Called("setTwe", setTwe(key, val).ret)
    /\ NoteOverwrite
    /\ twes' = setTwe(key, val).db
    /\ UNCHANGED <<tvts, tels, ancs, tibs, baks, oots, taes>>

SetTwe == \E key \in WrSnKeys, val \in Digs : SetTweAt(key, val)

GetTweAt(key) == Read("getTwe", getTwe(key))

GetTwe == \E key \in WrSnKeys : GetTweAt(key)

DelTweAt(key) ==
    /\ Called("delTwe", delTwe(key).ret)
    /\ NoteOverwrite
    /\ twes' = delTwe(key).db
    /\ UNCHANGED <<tvts, tels, ancs, tibs, baks, oots, taes>>

DelTwe == \E key \in WrSnKeys : DelTweAt(key)

(* ------------------------------ .taes ---------------------------------- *)

PutTaeAt(key, val) ==
    /\ Called("putTae", putTae(key, val).ret)
    /\ NotePut("taes", key, val)
    /\ taes' = putTae(key, val).db
    /\ UNCHANGED <<tvts, tels, ancs, tibs, baks, oots, twes>>

PutTae == \E key \in WrSnKeys, val \in Digs : PutTaeAt(key, val)

SetTaeAt(key, val) ==
    /\ Called("setTae", setTae(key, val).ret)
    /\ NoteOverwrite
    /\ taes' = setTae(key, val).db
    /\ UNCHANGED <<tvts, tels, ancs, tibs, baks, oots, twes>>

SetTae == \E key \in WrSnKeys, val \in Digs : SetTaeAt(key, val)

GetTaeAt(key) == Read("getTae", getTae(key))

GetTae == \E key \in WrSnKeys : GetTaeAt(key)

DelTaeAt(key) ==
    /\ Called("delTae", delTae(key).ret)
    /\ NoteOverwrite
    /\ taes' = delTae(key).db
    /\ UNCHANGED <<tvts, tels, ancs, tibs, baks, oots, twes>>

DelTae == \E key \in WrSnKeys : DelTaeAt(key)

(* ------------------------------ .oots ---------------------------------- *)

PutOotAt(key, val) ==
    /\ Called("putOot", putOot(key, val).ret)
    /\ NotePut("oots", key, val)
    /\ oots' = putOot(key, val).db
    /\ UNCHANGED <<tvts, tels, ancs, tibs, baks, twes, taes>>

PutOot == \E key \in WrSnKeys, val \in Digs : PutOotAt(key, val)

SetOotAt(key, val) ==
    /\ Called("setOot", setOot(key, val).ret)
    /\ NoteOverwrite
    /\ oots' = setOot(key, val).db
    /\ UNCHANGED <<tvts, tels, ancs, tibs, baks, twes, taes>>

SetOot == \E key \in WrSnKeys, val \in Digs : SetOotAt(key, val)

GetOotAt(key) == Read("getOot", getOot(key))

GetOot == \E key \in WrSnKeys : GetOotAt(key)

DelOotAt(key) ==
    /\ Called("delOot", delOot(key).ret)
    /\ NoteOverwrite
    /\ oots' = delOot(key).db
    /\ UNCHANGED <<tvts, tels, ancs, tibs, baks, twes, taes>>

DelOot == \E key \in WrSnKeys : DelOotAt(key)

(* ------------------------------ .ancs ---------------------------------- *)

PutAncAt(key, val) ==
    /\ Called("putAnc", putAnc(key, val).ret)
    /\ NotePut("ancs", key, val)
    /\ ancs' = putAnc(key, val).db
    /\ UNCHANGED <<tvts, tels, tibs, baks, oots, twes, taes>>

PutAnc == \E key \in WrDgKeys, val \in Couples : PutAncAt(key, val)

SetAncAt(key, val) ==
    /\ Called("setAnc", setAnc(key, val).ret)
    /\ NoteOverwrite
    /\ ancs' = setAnc(key, val).db
    /\ UNCHANGED <<tvts, tels, tibs, baks, oots, twes, taes>>

SetAnc == \E key \in WrDgKeys, val \in Couples : SetAncAt(key, val)

GetAncAt(key) == Read("getAnc", getAnc(key))

GetAnc == \E key \in WrDgKeys : GetAncAt(key)

DelAncAt(key) ==
    /\ Called("delAnc", delAnc(key).ret)
    /\ NoteOverwrite
    /\ ancs' = delAnc(key).db
    /\ UNCHANGED <<tvts, tels, tibs, baks, oots, twes, taes>>

DelAnc == \E key \in WrDgKeys : DelAncAt(key)

(* ------------------------------ .tibs ---------------------------------- *)

\* lists of at most two signatures, repeats included
SigLists ==
    {<<>>} \cup { <<a>> : a \in Sigs } \cup { <<a, b>> : a \in Sigs, b \in Sigs }

GetTibsAt(key) == Read("getTibs", getTibs(key))

GetTibs == \E key \in WrDgKeys : GetTibsAt(key)

CntTibsAt(key) == Read("cntTibs", cntTibs(key))

CntTibs == \E key \in WrDgKeys : CntTibsAt(key)

CntTelsAt(pre, fn) == Read("cntTels", cntTels(pre, fn))

CntTels == \E pre \in Pres, fn \in Ons : CntTelsAt(pre, fn)

PutTibsAt(key, vals) ==
    /\ Called("putTibs", putTibs(key, vals).ret)
    /\ NoteDup
    /\ tibs' = putTibs(key, vals).db
    /\ UNCHANGED <<tvts, tels, ancs, baks, oots, twes, taes>>

PutTibs == \E key \in WrDgKeys, vals \in SigLists : PutTibsAt(key, vals)

AddTibAt(key, val) ==
    /\ Called("addTib", addTib(key, val).ret)
    /\ NoteDup
    /\ tibs' = addTib(key, val).db
    /\ UNCHANGED <<tvts, tels, ancs, baks, oots, twes, taes>>

AddTib == \E key \in WrDgKeys, val \in Sigs : AddTibAt(key, val)

DelTibsAt(key, val) ==
    /\ Called("delTibs", delTibs(key, val).ret)
    /\ NoteDup
    /\ tibs' = delTibs(key, val).db
    /\ UNCHANGED <<tvts, tels, ancs, baks, oots, twes, taes>>

DelTibs == \E key \in WrDgKeys, val \in Sigs \cup {<<>>} : DelTibsAt(key, val)

(* ------------------------------ .baks ---------------------------------- *)

\* lists of at most two backers, repeats included
BakLists ==
    {<<>>} \cup { <<a>> : a \in Backers }
           \cup { <<a, b>> : a \in Backers, b \in Backers }

\* vals behind seen, leaving out what seen or an earlier member holds
RECURSIVE FirstSeen(_, _)
FirstSeen(seen, vals) ==
    IF vals = <<>> THEN seen
    ELSE IF \E i \in 1..Len(seen) : seen[i] = Head(vals)
    THEN FirstSeen(seen, Tail(vals))
    ELSE FirstSeen(Append(seen, Head(vals)), Tail(vals))

NoteBakAdd(key, vals) ==
    /\ bakCalls' = [bakCalls EXCEPT ![key].vals =
                        IF bakCalls[key].clean THEN FirstSeen(@, vals) ELSE @]
    /\ UNCHANGED <<firstPut, putsOnly>>

NoteBakDel(key) ==
    /\ bakCalls' = [bakCalls EXCEPT ![key] = [clean |-> FALSE, vals |-> <<>>]]
    /\ UNCHANGED <<firstPut, putsOnly>>

PutBaksAt(key, vals) ==
    /\ Called("putBaks", putBaks(key, vals).ret)
    /\ NoteBakAdd(key, vals)
    /\ baks' = putBaks(key, vals).db
    /\ UNCHANGED <<tvts, tels, ancs, tibs, oots, twes, taes>>

PutBaks == \E key \in WrDgKeys, vals \in BakLists : PutBaksAt(key, vals)

AddBakAt(key, val) ==
    /\ Called("addBak", addBak(key, val).ret)
    /\ NoteBakAdd(key, <<val>>)
    /\ baks' = addBak(key, val).db
    /\ UNCHANGED <<tvts, tels, ancs, tibs, oots, twes, taes>>

AddBak == \E key \in WrDgKeys, val \in Backers : AddBakAt(key, val)

GetBaksAt(key) == Read("getBaks", getBaks(key))

GetBaks == \E key \in WrDgKeys : GetBaksAt(key)

CntBaksAt(key) == Read("cntBaks", cntBaks(key))

CntBaks == \E key \in WrDgKeys : CntBaksAt(key)

DelBaksAt(key) ==
    /\ Called("delBaks", delBaks(key).ret)
    /\ NoteBakDel(key)
    /\ baks' = delBaks(key).db
    /\ UNCHANGED <<tvts, tels, ancs, tibs, oots, twes, taes>>

DelBaks == \E key \in WrDgKeys : DelBaksAt(key)

DelBakAt(key, val) ==
    /\ Called("delBak", delBak(key, val).ret)
    /\ NoteBakDel(key)
    /\ baks' = delBak(key, val).db
    /\ UNCHANGED <<tvts, tels, ancs, tibs, oots, twes, taes>>

DelBak == \E key \in WrDgKeys, val \in Backers : DelBakAt(key, val)

(* --------------------------- clonePreIter ------------------------------ *)

\* the call clonePreIter(pre, fn): a generator that has not run yet
CloneStart ==
    \E pre \in Pres, fn \in Ons :
        /\ it.pc = "none"
        /\ it' = [NoGen EXCEPT !.pc = "created", !.pre = pre, !.fn = fn]
        /\ last' = NoCall
        /\ UNCHANGED <<tvts, tels, ancs, tibs, baks, oots, twes, taes,
                       snap, nw, firstPut, putsOnly, bakCalls>>

\* next() on the generator
ClonePull ==
    /\ it.pc \in {"created", "running"}
    /\ it' = cloneNext(it)
    /\ snap' = IF it.pc = "created" THEN Store ELSE snap
    /\ UNCHANGED <<tvts, tels, ancs, tibs, baks, oots, twes, taes,
                   last, nw, firstPut, putsOnly, bakCalls>>

\* the consumer drops the generator, finished or not
CloneClose ==
    /\ it.pc # "none"
    /\ it' = NoGen
    /\ snap' = NoStore
    /\ UNCHANGED <<tvts, tels, ancs, tibs, baks, oots, twes, taes,
                   last, nw, firstPut, putsOnly, bakCalls>>

(* ========================== specifications ============================= *)

\* every operation of the registry, in any order, MaxOps writes at most
Next ==
    \/ nw < MaxOps /\ PutTvt
    \/ nw < MaxOps /\ SetTvt
    \/ nw < MaxOps /\ DelTvt
    \/ nw < MaxOps /\ PutTel
    \/ nw < MaxOps /\ SetTel
    \/ nw < MaxOps /\ DelTel
    \/ nw < MaxOps /\ PutAnc
    \/ nw < MaxOps /\ SetAnc
    \/ nw < MaxOps /\ DelAnc
    \/ nw < MaxOps /\ PutTwe
    \/ nw < MaxOps /\ SetTwe
    \/ nw < MaxOps /\ DelTwe
    \/ nw < MaxOps /\ PutTae
    \/ nw < MaxOps /\ SetTae
    \/ nw < MaxOps /\ DelTae
    \/ nw < MaxOps /\ PutOot
    \/ nw < MaxOps /\ SetOot
    \/ nw < MaxOps /\ DelOot
    \/ nw < MaxOps /\ PutTibs
    \/ nw < MaxOps /\ AddTib
    \/ nw < MaxOps /\ DelTibs
    \/ nw < MaxOps /\ PutBaks
    \/ nw < MaxOps /\ AddBak
    \/ nw < MaxOps /\ DelBaks
    \/ nw < MaxOps /\ DelBak
    \/ GetTvt
    \/ GetTel
    \/ GetAnc
    \/ GetTwe
    \/ GetTae
    \/ GetOot
    \/ GetTibs
    \/ CntTibs
    \/ GetBaks
    \/ CntBaks
    \/ CloneStart
    \/ ClonePull
    \/ CloneClose

Spec == Init /\ [][Next]_vars

\* the single value sub DBs
NextSv ==
    \/ nw < MaxSvOps /\ PutTvt
    \/ nw < MaxSvOps /\ SetTvt
    \/ nw < MaxSvOps /\ DelTvt
    \/ nw < MaxSvOps /\ PutTel
    \/ nw < MaxSvOps /\ SetTel
    \/ nw < MaxSvOps /\ DelTel
    \/ nw < MaxSvOps /\ PutAnc
    \/ nw < MaxSvOps /\ SetAnc
    \/ nw < MaxSvOps /\ DelAnc
    \/ nw < MaxSvOps /\ PutTwe
    \/ nw < MaxSvOps /\ SetTwe
    \/ nw < MaxSvOps /\ DelTwe
    \/ nw < MaxSvOps /\ PutTae
    \/ nw < MaxSvOps /\ SetTae
    \/ nw < MaxSvOps /\ DelTae
    \/ nw < MaxSvOps /\ PutOot
    \/ nw < MaxSvOps /\ SetOot
    \/ nw < MaxSvOps /\ DelOot
    \/ GetTvt
    \/ GetTel
    \/ GetAnc
    \/ GetTwe
    \/ GetTae
    \/ GetOot

SpecSv == Init /\ [][NextSv]_vars

\* the witness signatures
NextTibs ==
    \/ nw < MaxTibOps /\ PutTibs
    \/ nw < MaxTibOps /\ AddTib
    \/ nw < MaxTibOps /\ DelTibs
    \/ GetTibs
    \/ CntTibs

SpecTibs == Init /\ [][NextTibs]_vars

\* the backer roster
NextBaks ==
    \/ nw < MaxBakOps /\ PutBaks
    \/ nw < MaxBakOps /\ AddBak
    \/ nw < MaxBakOps /\ DelBaks
    \/ nw < MaxBakOps /\ DelBak
    \/ GetBaks
    \/ CntBaks

SpecBaks == Init /\ [][NextBaks]_vars

\* a registry opened on a database that holds a log: two events of
\* prefix 1, the first with two witness signatures and an anchor, and one
\* event of prefix 2; which calls wrote them is not known
InitLog ==
    /\ tels = (snKey(1, 0) :> 1) @@ (snKey(1, 1) :> 2) @@ (snKey(2, 0) :> 2)
    /\ tvts = (dgKey(1, 1) :> <<123, 125>>) @@ (dgKey(1, 2) :> <<91, 93>>)
              @@ (dgKey(2, 2) :> <<91, 93>>)
    /\ tibs = [NoDups EXCEPT ![dgKey(1, 1)] = Sigs]
    /\ ancs = (dgKey(1, 1) :> <<48, 48>>)
    /\ oots = EmptyDb /\ twes = EmptyDb /\ taes = EmptyDb
    /\ baks = NoDups
    /\ putsOnly = FALSE
    /\ InitRest

\* a replay over a store that is written only while no generator lives
NextClone ==
    \/ it.pc = "none" /\ nw < MaxCloneOps /\ PutTvt
    \/ it.pc = "none" /\ nw < MaxCloneOps /\ SetTvt
    \/ it.pc = "none" /\ nw < MaxCloneOps /\ DelTvt
    \/ it.pc = "none" /\ nw < MaxCloneOps /\ PutTel
    \/ it.pc = "none" /\ nw < MaxCloneOps /\ SetTel
    \/ it.pc = "none" /\ nw < MaxCloneOps /\ DelTel
    \/ it.pc = "none" /\ nw < MaxCloneOps /\ PutAnc
    \/ it.pc = "none" /\ nw < MaxCloneOps /\ SetAnc
    \/ it.pc = "none" /\ nw < MaxCloneOps /\ DelAnc
    \/ it.pc = "none" /\ nw < MaxCloneOps /\ AddTib
    \/ it.pc = "none" /\ nw < MaxCloneOps /\ DelTibs
    \/ CntTels
    \/ CloneStart
    \/ ClonePull
    \/ CloneClose

SpecClone == InitLog /\ [][NextClone]_vars

\* a replay with writes between the pulls
NextCloneWr ==
    \/ nw < MaxCloneOps /\ PutTvt
    \/ nw < MaxCloneOps /\ SetTvt
    \/ nw < MaxCloneOps /\ DelTvt
    \/ nw < MaxCloneOps /\ PutTel
    \/ nw < MaxCloneOps /\ SetTel
    \/ nw < MaxCloneOps /\ DelTel
    \/ nw < MaxCloneOps /\ PutAnc
    \/ nw < MaxCloneOps /\ SetAnc
    \/ nw < MaxCloneOps /\ DelAnc
    \/ nw < MaxCloneOps /\ AddTib
    \/ nw < MaxCloneOps /\ DelTibs
    \/ CloneStart
    \/ ClonePull
    \/ CloneClose

SpecCloneWr == InitLog /\ [][NextCloneWr]_vars

\* writes that add entries, and the deletes of every sub DB
NextDel ==
    \/ nw < MaxDelOps /\ PutTvt
    \/ nw < MaxDelOps /\ PutTel
    \/ nw < MaxDelOps /\ PutOot
    \/ nw < MaxDelOps /\ PutTwe
    \/ nw < MaxDelOps /\ PutTae
    \/ nw < MaxDelOps /\ PutAnc
    \/ nw < MaxDelOps /\ PutTibs
    \/ nw < MaxDelOps /\ PutBaks
    \/ nw < MaxDelOps /\ DelTvt
    \/ nw < MaxDelOps /\ DelTel
    \/ nw < MaxDelOps /\ DelOot
    \/ nw < MaxDelOps /\ DelTwe
    \/ nw < MaxDelOps /\ DelTae
    \/ nw < MaxDelOps /\ DelAnc
    \/ nw < MaxDelOps /\ DelTibs
    \/ nw < MaxDelOps /\ DelBaks
    \/ nw < MaxDelOps /\ DelBak

SpecDel == Init /\ [][NextDel]_vars

\* any call, on a database that holds an event log
SpecLog == InitLog /\ [][Next]_vars

\* every read and the replay, around writes that add entries
NextRead ==
    \/ nw < MaxReadOps /\ PutTvt
    \/ nw < MaxReadOps /\ PutTel
    \/ nw < MaxReadOps /\ PutOot
    \/ nw < MaxReadOps /\ PutTwe
    \/ nw < MaxReadOps /\ PutTae
    \/ nw < MaxReadOps /\ PutAnc
    \/ nw < MaxReadOps /\ AddTib
    \/ nw < MaxReadOps /\ AddBak
    \/ GetTvt
    \/ GetTel
    \/ GetOot
    \/ GetTwe
    \/ GetTae
    \/ GetAnc
    \/ GetTibs
    \/ CntTibs
    \/ GetBaks
    \/ CntBaks
    \/ CntTels
    \/ CloneStart
    \/ ClonePull
    \/ CloneClose

SpecRead == Init /\ [][NextRead]_vars

(* ------------------- escrow manager: ingestion and sweep --------------- *)

\* sequence numbers of the events ingested
EscrowOns == {0, 1, 2}

\* the contiguity predicate of (pre, sn) against the canonical index t
Contiguous(t, pre, sn) == sn = 0 \/ snKey(pre, sn - 1) \in DOMAIN t

\* ingestion of the event dig at (pre, sn): into the canonical index when
\* its sequence number is contiguous, into the out of order escrow when not
IngestAt(pre, sn, dig) ==
    /\ IF Contiguous(tels, pre, sn)
       THEN /\ Called("ingest", putTel(snKey(pre, sn), dig).ret)
            /\ tels' = putTel(snKey(pre, sn), dig).db
            /\ oots' = oots
       ELSE /\ Called("ingest", putOot(snKey(pre, sn), dig).ret)
            /\ oots' = putOot(snKey(pre, sn), dig).db
            /\ tels' = tels
    /\ NoteOverwrite
    /\ UNCHANGED <<tvts, ancs, tibs, baks, twes, taes>>

Ingest == \E pre \in Pres, sn \in EscrowOns, dig \in Digs : IngestAt(pre, sn, dig)

\* the move of the escrow entries ks from o into t
RECURSIVE promoteAll(_, _, _)
promoteAll(t, o, ks) ==
    IF ks = {} THEN [tels |-> t, oots |-> o]
    ELSE LET k == CHOOSE x \in ks : TRUE
         IN promoteAll(putVal(t, k, o[k]).db, delVal(o, k).db, ks \ {k})

\* one pass that moves the entries found promotable when it began
sweep_onePass(t, o) ==
    LET ks == { k \in DOMAIN o : Contiguous(t, k[1], k[2]) }
        p == promoteAll(t, o, ks)
    IN [tels |-> p.tels, oots |-> p.oots, n |-> Cardinality(ks)]

\* the promotion sweep: passes over the escrow, each moving the entries
\* whose predicate holds when the pass begins, until a pass moves none;
\* n is the number of entries moved
RECURSIVE sweep(_, _)
sweep(t, o) ==
    LET ks == { k \in DOMAIN o : Contiguous(t, k[1], k[2]) }
    IN IF ks = {} THEN [tels |-> t, oots |-> o, n |-> 0]
       ELSE LET p == promoteAll(t, o, ks)
                r == sweep(p.tels, p.oots)
            IN [tels |-> r.tels, oots |-> r.oots, n |-> r.n + Cardinality(ks)]

\* one invocation of the sweep
Sweep ==
    /\ Called("sweep", sweep(tels, oots).n)
    /\ tels' = sweep(tels, oots).tels
    /\ oots' = sweep(tels, oots).oots
    /\ NoteOverwrite
    /\ UNCHANGED <<tvts, ancs, tibs, baks, twes, taes>>

NextEscrow ==
    \/ nw < MaxEscrowOps /\ Ingest
    \/ nw < MaxEscrowOps /\ Sweep

SpecEscrow == Init /\ [][NextEscrow]_vars

(* ============================== replay ================================= *)

\* the ordinals of a set, ascending
RECURSIVE Ascending(_)
Ascending(S) ==
    IF S = {} THEN <<>>
    ELSE LET m == CHOOSE x \in S : \A y \in S : x <= y
         IN <<m>> \o Ascending(S \ {m})

\* the (ordinal, digest) entries of index db under pre from ordinal fn on
EntriesOf(db, pre, fn) ==
    LET ons == Ascending({ n \in Ons : <<pre, n>> \in DOMAIN db /\ n >= fn })
    IN [i \in 1..Len(ons) |-> <<ons[i], db[<<pre, ons[i]>>]>>]

\* the attachments store st holds for the event at k: the signature group
\* when there is a signature, then the seal group when there is an anchor
WantAtc(st, k) ==
    LET sigs == SortedSeq(st.tibs[k])
    IN (IF st.tibs[k] # {}
        THEN Counter(WitnessIdxSigs, Cardinality(st.tibs[k])) \o Extend(sigs)
        ELSE <<>>)
       \o
       (IF k \in DOMAIN st.ancs
        THEN Counter(SealSourceCouples, 1) \o st.ancs[k]
        ELSE <<>>)

\* body, header counting the attachments in units of four bytes, attachments
WantMsg(st, k) ==
    st.tvts[k]
    \o Counter(AttachedMaterialQuadlets, Len(WantAtc(st, k)) \div 4)
    \o WantAtc(st, k)

\* a generator that has been pulled at least once
Pulled == it.pc \in {"running", "done", "error"}

\* a generator that will yield no more
Ended == it.pc \in {"done", "error"}

\* C1: clonePreIter(P, fn) yields exactly one message per entry of tels
\* under P with ordinal >= fn, in ascending ordinal order, and none for
\* other prefixes or smaller ordinals, when no event record is missing
\* and no attachment length is off the quadlet unit.
C1_OneMessagePerEntry ==
    LET es == EntriesOf(tels, it.pre, it.fn)
    IN (/\ Ended
        /\ \A i \in 1..Len(es) :
              LET k == dgKey(it.pre, es[i][2])
              IN k \in DOMAIN tvts /\ Len(WantAtc(Store, k)) % 4 = 0)
       => (it.pc = "done" /\ it.seen = es /\ Len(it.out) = Len(es))

\* the same, for event records that are stored and not empty
CloneYieldsNonEmptyEntries ==
    LET es == EntriesOf(tels, it.pre, it.fn)
    IN (/\ Ended
        /\ \A i \in 1..Len(es) :
              LET k == dgKey(it.pre, es[i][2])
              IN /\ k \in DOMAIN tvts /\ tvts[k] # <<>>
                 /\ Len(WantAtc(Store, k)) % 4 = 0)
       => (it.pc = "done" /\ it.seen = es /\ Len(it.out) = Len(es))

\* C2: each message yielded is the stored event body, a header whose
\* count is the attachment length / 4, then the attachments: a witness
\* signature group (count = number of signatures, signatures in stored
\* order) iff there is a signature, then a seal group of count 1 with the
\* anchor iff an anchor is stored; with neither, body plus a count 0 header.
C2_MessageLayout ==
    Pulled =>
        /\ Len(it.out) = Len(it.seen)
        /\ \A i \in 1..Len(it.out) :
              it.out[i] = WantMsg(Store, dgKey(it.pre, it.seen[i][2]))

\* a yielded message that carries both groups, two signatures in the first
C2_Witness ==
    /\ Pulled
    /\ \E i \in 1..Len(it.out) :
          LET k == dgKey(it.pre, it.seen[i][2])
          IN Cardinality(tibs[k]) = 2 /\ k \in DOMAIN ancs

\* the positions of the entries whose event record is not stored
MissingAt(es) ==
    { i \in 1..Len(es) : dgKey(it.pre, es[i][2]) \notin DOMAIN tvts }

\* C3: when an entry of tels under P references a digest with no event
\* record in tvts, the pass ends with the error at that entry: messages
\* only for the entries before it, none for it or any later entry, and
\* no normal end.
C3_MissingEventStops ==
    LET es == EntriesOf(tels, it.pre, it.fn)
        miss == MissingAt(es)
    IN (Pulled /\ miss # {}) =>
          LET j == CHOOSE x \in miss : \A y \in miss : x <= y
          IN /\ Len(it.out) < j
             /\ Len(it.seen) = Len(it.out)
             /\ it.seen = SubSeq(es, 1, Len(it.seen))
             /\ it.pc # "done"
             /\ (it.pc = "error" /\ Len(it.out) = j - 1)
                    => it.err = "MissingEntryError"

\* a pass that yielded a message and then stopped on a missing record
C3_Witness ==
    LET es == EntriesOf(tels, it.pre, it.fn)
    IN /\ it.pc = "error" /\ it.err = "MissingEntryError"
       /\ Len(it.out) = 1 /\ Len(es) = 2
       /\ MissingAt(es) = {2}

\* what a pass over store st yields: the messages of the entries up to the
\* first one that raises
RECURSIVE WantOut(_, _, _)
WantOut(st, pre, es) ==
    IF es = <<>> THEN <<>>
    ELSE LET k == dgKey(pre, Head(es)[2])
         IN IF \/ k \notin DOMAIN st.tvts
               \/ st.tvts[k] = <<>>
               \/ Len(WantAtc(st, k)) % 4 # 0
            THEN <<>>
            ELSE <<WantMsg(st, k)>> \o WantOut(st, pre, Tail(es))

\* C4: one pass sees one snapshot: what is written between two pulls does
\* not show in the messages yielded later; the pass yields the messages
\* the store held when it began.
C4_PassSeesSnapshot ==
    Pulled =>
        LET want == WantOut(snap, it.pre, EntriesOf(snap.tels, it.pre, it.fn))
        IN /\ Len(it.out) <= Len(want)
           /\ it.out = SubSeq(want, 1, Len(it.out))
           /\ it.pc = "done" => it.out = want

(* ====================== single value sub DBs =========================== *)

\* the sub DB a name stands for
TableOf(tbl) ==
    CASE tbl = "tvts" -> tvts [] tbl = "tels" -> tels [] tbl = "ancs" -> ancs
      [] tbl = "oots" -> oots [] tbl = "twes" -> twes [] tbl = "taes" -> taes

\* while only puts were made, every key holds the value of its first put
FirstPutKept ==
    putsOnly =>
        \A e \in DOMAIN firstPut :
            getVal(TableOf(e[1]), e[2]) = Some(firstPut[e])

\* C5: in each single value table, put on a key that holds a value returns
\* False and leaves the value; put on an absent key returns True and a
\* following get returns val; so after puts only, get(key) is the value of
\* the first put to the key.
C5_PutKeepsFirst ==
    [][ /\ \A key \in DgKeys, val \in Raws :
              (last'.op = "putTvt" /\ PutTvtAt(key, val)) =>
                 IF getTvt(key) # None
                 THEN last'.ret = FALSE /\ tvts' = tvts
                 ELSE last'.ret = TRUE /\ getTvt(key)' = Some(val)
        /\ \A key \in DgKeys, val \in Couples :
              (last'.op = "putAnc" /\ PutAncAt(key, val)) =>
                 IF getAnc(key) # None
                 THEN last'.ret = FALSE /\ ancs' = ancs
                 ELSE last'.ret = TRUE /\ getAnc(key)' = Some(val)
        /\ \A key \in SnKeys, val \in Digs :
              /\ (last'.op = "putTel" /\ PutTelAt(key, val)) =>
                    IF getTel(key) # None
                    THEN last'.ret = FALSE /\ tels' = tels
                    ELSE last'.ret = TRUE /\ getTel(key)' = Some(val)
              /\ (last'.op = "putOot" /\ PutOotAt(key, val)) =>
                    IF getOot(key) # None
                    THEN last'.ret = FALSE /\ oots' = oots
                    ELSE last'.ret = TRUE /\ getOot(key)' = Some(val)
              /\ (last'.op = "putTwe" /\ PutTweAt(key, val)) =>
                    IF getTwe(key) # None
                    THEN last'.ret = FALSE /\ twes' = twes
                    ELSE last'.ret = TRUE /\ getTwe(key)' = Some(val)
              /\ (last'.op = "putTae" /\ PutTaeAt(key, val)) =>
                    IF getTae(key) # None
                    THEN last'.ret = FALSE /\ taes' = taes
                    ELSE last'.ret = TRUE /\ getTae(key)' = Some(val)
        /\ FirstPutKept'
      ]_vars

\* a put to a key of tvts that held a value has returned False
C5_Witness ==
    /\ last.op = "putTvt" /\ last.ret = FALSE
    /\ putsOnly
    /\ \E key \in DOMAIN tvts : <<"tvts", key>> \in DOMAIN firstPut

\* C6: in each single value table, set returns True whatever the key held,
\* a following get returns val, and every other key keeps its value.
C6_SetOverwrites ==
    [][ /\ \A key \in DgKeys, val \in Raws :
              (last'.op = "setTvt" /\ SetTvtAt(key, val)) =>
                 /\ last'.ret = TRUE /\ getTvt(key)' = Some(val)
                 /\ \A k \in DgKeys \ {key} : getTvt(k)' = getTvt(k)
        /\ \A key \in DgKeys, val \in Couples :
              (last'.op = "setAnc" /\ SetAncAt(key, val)) =>
                 /\ last'.ret = TRUE /\ getAnc(key)' = Some(val)
                 /\ \A k \in DgKeys \ {key} : getAnc(k)' = getAnc(k)
        /\ \A key \in SnKeys, val \in Digs :
              /\ (last'.op = "setTel" /\ SetTelAt(key, val)) =>
                    /\ last'.ret = TRUE /\ getTel(key)' = Some(val)
                    /\ \A k \in SnKeys \ {key} : getTel(k)' = getTel(k)
              /\ (last'.op = "setOot" /\ SetOotAt(key, val)) =>
                    /\ last'.ret = TRUE /\ getOot(key)' = Some(val)
                    /\ \A k \in SnKeys \ {key} : getOot(k)' = getOot(k)
              /\ (last'.op = "setTwe" /\ SetTweAt(key, val)) =>
                    /\ last'.ret = TRUE /\ getTwe(key)' = Some(val)
                    /\ \A k \in SnKeys \ {key} : getTwe(k)' = getTwe(k)
              /\ (last'.op = "setTae" /\ SetTaeAt(key, val)) =>
                    /\ last'.ret = TRUE /\ getTae(key)' = Some(val)
                    /\ \A k \in SnKeys \ {key} : getTae(k)' = getTae(k)
      ]_vars

\* setTvt has replaced the value a put had stored by another one
C6_Witness ==
    /\ last.op = "setTvt" /\ last.ret = TRUE
    /\ \E key \in DOMAIN tvts :
          /\ <<"tvts", key>> \in DOMAIN firstPut
          /\ tvts[key] # firstPut[<<"tvts", key>>]

\* C7: for every prefix P and sequence number N, an entry of tels at (P, N)
\* comes with an entry at (P, M) for every M < N.
C7_NoGap ==
    \A k \in DOMAIN tels :
        \A m \in 0..(k[2] - 1) : snKey(k[1], m) \in DOMAIN tels

\* C8: no (prefix, sequence number) key has an entry in tels and an entry
\* in one of the escrows oots, twes, taes at once.
C8_EscrowOrCanonical ==
    \A k \in SnKeys :
        ~ (/\ k \in DOMAIN tels
           /\ k \in DOMAIN oots \cup DOMAIN twes \cup DOMAIN taes)

(* ========================= dupsort sub DBs ============================= *)

\* the members of a list
Members(seq) == { seq[i] : i \in 1..Len(seq) }

\* a list that holds no value twice
NoRepeat(seq) == \A i, j \in 1..Len(seq) : seq[i] = seq[j] => i = j

\* C9: addTib of a value stored at the key returns False and leaves the
\* signatures and their count; addTib of a value not stored returns True
\* and raises cntTibs by one; getTibs holds each distinct value once.
C9_AddTibIdempotent ==
    [][ /\ \A key \in DgKeys, val \in Sigs :
              (last'.op = "addTib" /\ AddTibAt(key, val)) =>
                 IF val \in Members(getTibs(key))
                 THEN /\ last'.ret = FALSE
                      /\ getTibs(key)' = getTibs(key)
                      /\ cntTibs(key)' = cntTibs(key)
                 ELSE /\ last'.ret = TRUE
                      /\ cntTibs(key)' = cntTibs(key) + 1
                      /\ Members(getTibs(key))' = Members(getTibs(key)) \cup {val}
        /\ \A key \in DgKeys :
              /\ NoRepeat(getTibs(key))'
              /\ Len(getTibs(key))' = cntTibs(key)'
      ]_vars

\* addTib of a signature that was stored has returned False
C9_Witness ==
    /\ last.op = "addTib" /\ last.ret = FALSE
    /\ \E key \in DgKeys :
          /\ cntTibs(key) = 2
          /\ \A k \in DgKeys \ {key} : cntTibs(k) = 0

\* C10: getBaks returns the distinct values in the order of their first
\* addBak / putBaks, whatever their lexicographic order; reading does not
\* reorder; delBak of one value keeps the order of the others.
C10_BakOrder ==
    [][ /\ \A key \in DgKeys :
              (bakCalls[key].clean => getBaks(key) = bakCalls[key].vals)'
        /\ \A key \in DgKeys :
              (last'.op = "getBaks" /\ GetBaksAt(key)) =>
                 last'.ret = getBaks(key) /\ getBaks(key)' = getBaks(key)
        /\ \A key \in DgKeys, val \in Backers :
              (last'.op = "delBak" /\ DelBakAt(key, val)) =>
                 getBaks(key)' = SelectSeq(getBaks(key), LAMBDA v : v # val)
      ]_vars

\* delBak has taken one of three backers away and left two that are not in
\* lexicographic order
C10_Witness ==
    /\ last.op = "delBak" /\ last.ret = TRUE
    /\ \E key \in DgKeys :
          /\ getBaks(key) = << <<67>>, <<65>> >>
          /\ ~ bakCalls[key].clean
          /\ \A k \in DgKeys \ {key} : bakCalls[k].clean /\ baks[k] = {}

(* ==================== retrieval order of .tibs ========================= *)

\* a list in strictly ascending lexicographic order
LexAscending(seq) ==
    \A i, j \in 1..Len(seq) : i < j => LexLess(seq[i], seq[j])

\* C11: after any addTib / putTibs on a key, getTibs(key) and
\* getTibsIter(key) return the stored signatures ascending by value, so
\* what an add leaves depends on the set of values and not on their order
\* of insertion.
C11_TibsSortedByValue ==
    [][ /\ \A key \in DgKeys :
              /\ LexAscending(getTibs(key))'
              /\ LexAscending(getTibsIter(key))'
              /\ Members(getTibs(key))' = tibs'[key]
              /\ Members(getTibsIter(key))' = tibs'[key]
        /\ \A key \in DgKeys, val \in Sigs :
              (last'.op = "addTib" /\ AddTibAt(key, val)) =>
                 getTibs(key)' = SortedSeq(Members(getTibs(key)) \cup {val})
        /\ \A key \in DgKeys, vals \in SigLists :
              (last'.op = "putTibs" /\ PutTibsAt(key, vals))
                 => getTibs(key)'
                      = SortedSeq(Members(getTibs(key)) \cup Members(vals))
      ]_vars

\* two signatures written by two calls, the second call an addTib, read
\* back with the smaller value first
C11_Witness ==
    /\ last.op = "addTib" /\ last.ret = TRUE
    /\ nw = 2
    /\ \E key \in DgKeys :
          /\ getTibs(key) = << <<65, 65, 65, 65>>, <<66, 66>> >>
          /\ \A k \in DgKeys \ {key} : cntTibs(k) = 0

(* ======================= duplicates in .baks =========================== *)

\* C12: addBak of a value that is in the roster at key returns False and
\* leaves the roster (values, order, count); the ordering proem never makes
\* one value count twice.
C12_AddBakRejectsDuplicate ==
    [][ /\ \A key \in DgKeys, val \in Backers :
              (/\ last'.op = "addBak" /\ AddBakAt(key, val)
               /\ val \in Members(getBaks(key)))
                 => /\ last'.ret = FALSE
                    /\ getBaks(key)' = getBaks(key)
                    /\ cntBaks(key)' = cntBaks(key)
                    /\ baks' = baks
        /\ \A key \in DgKeys :
              /\ NoRepeat(getBaks(key))'
              /\ cntBaks(key)' = Len(getBaks(key))'
      ]_vars

\* addBak of a backer of a roster of two has returned False
C12_Witness ==
    /\ last.op = "addBak" /\ last.ret = FALSE
    /\ \E key \in DgKeys :
          /\ cntBaks(key) = 2
          /\ \A k \in DgKeys \ {key} : cntBaks(k) = 0

(* ===================== quadruples at one key of .ancs ================== *)

\* C13: putAnc(key, q2) on a key that holds another quadruple q1 stores q2
\* as well (the put is accepted and .ancs grows) while getAnc(key) goes on
\* returning q1.
C13_AncHoldsBoth ==
    [][ \A key \in DgKeys, val \in Couples :
           (/\ last'.op = "putAnc" /\ PutAncAt(key, val)
            /\ getAnc(key) # None /\ getAnc(key) # Some(val))
              => /\ last'.ret = TRUE
                 /\ ancs' # ancs
                 /\ getAnc(key)' = getAnc(key)
      ]_vars

(* ================== attachment size during replay ====================== *)

\* the positions of the entries whose attachments are not a whole number
\* of quadlets
OffSizeAt(es) ==
    { i \in 1..Len(es) :
        Len(WantAtc(Store, dgKey(it.pre, es[i][2]))) % 4 # 0 }

\* C14: when the attachments of an event are not a multiple of 4 bytes
\* long, clonePreIter raises at that event and yields no message for it nor
\* for a later one; a message is yielded only when the header count times
\* 4 is the attachment length.
C14_OffSizeStops ==
    LET es == EntriesOf(tels, it.pre, it.fn)
        off == OffSizeAt(es)
    IN Pulled =>
          /\ \A i \in 1..Len(it.out) :
                Len(WantAtc(Store, dgKey(it.pre, it.seen[i][2]))) % 4 = 0
          /\ off # {} =>
                LET j == CHOOSE x \in off : \A y \in off : x <= y
                IN /\ Len(it.out) < j
                   /\ it.seen = SubSeq(es, 1, Len(it.out))
                   /\ it.pc # "done"
                   /\ (/\ it.pc = "error" /\ Len(it.out) = j - 1
                       /\ j \notin MissingAt(es)
                       /\ tvts[dgKey(it.pre, es[j][2])] # <<>>)
                          => it.err = "ValueError"

\* a pass that yielded a message and then stopped on attachments of a
\* size off the quadlet
C14_Witness ==
    LET es == EntriesOf(tels, it.pre, it.fn)
    IN /\ it.pc = "error" /\ it.err = "ValueError"
       /\ Len(it.out) = 1 /\ Len(es) = 2
       /\ OffSizeAt(es) = {2}

(* ============================== deletes ================================ *)

\* no sub DB changes in the step
StoreUnchanged == UNCHANGED <<tvts, tels, ancs, tibs, baks, oots, twes, taes>>

\* seq without val
Without(seq, val) == SelectSeq(seq, LAMBDA v : v # val)

\* the deletes of the single value sub DBs, of every dup at a key of .tibs,
\* and of one dup of .tibs: False and no change for what is not there,
\* True and an empty read after for what is
DelKeyOrDup ==
    /\ \A key \in DgKeys :
          /\ (last'.op = "delTvt" /\ DelTvtAt(key)) =>
                IF getTvt(key) = None
                THEN last'.ret = FALSE /\ StoreUnchanged
                ELSE last'.ret = TRUE /\ getTvt(key)' = None
          /\ (last'.op = "delAnc" /\ DelAncAt(key)) =>
                IF getAnc(key) = None
                THEN last'.ret = FALSE /\ StoreUnchanged
                ELSE last'.ret = TRUE /\ getAnc(key)' = None
          /\ (last'.op = "delTibs" /\ DelTibsAt(key, <<>>)) =>
                IF getTibs(key) = <<>>
                THEN last'.ret = FALSE /\ StoreUnchanged
                ELSE last'.ret = TRUE /\ getTibs(key)' = <<>>
          /\ (last'.op = "delBaks" /\ DelBaksAt(key)) =>
                IF getBaks(key) = <<>>
                THEN last'.ret = FALSE /\ StoreUnchanged
                ELSE last'.ret = TRUE /\ getBaks(key)' = <<>>
    /\ \A key \in SnKeys :
          /\ (last'.op = "delTel" /\ DelTelAt(key)) =>
                IF getTel(key) = None
                THEN last'.ret = FALSE /\ StoreUnchanged
                ELSE last'.ret = TRUE /\ getTel(key)' = None
          /\ (last'.op = "delOot" /\ DelOotAt(key)) =>
                IF getOot(key) = None
                THEN last'.ret = FALSE /\ StoreUnchanged
                ELSE last'.ret = TRUE /\ getOot(key)' = None
          /\ (last'.op = "delTwe" /\ DelTweAt(key)) =>
                IF getTwe(key) = None
                THEN last'.ret = FALSE /\ StoreUnchanged
                ELSE last'.ret = TRUE /\ getTwe(key)' = None
          /\ (last'.op = "delTae" /\ DelTaeAt(key)) =>
                IF getTae(key) = None
                THEN last'.ret = FALSE /\ StoreUnchanged
                ELSE last'.ret = TRUE /\ getTae(key)' = None

\* C15, as amended: a delete of what is not stored returns False and
\* changes no sub DB; delTvt, delTel, delOot, delTwe, delTae, delAnc,
\* delTibs(key) and delBaks(key) on a present key return True and a
\* following get of the key is empty; delTibs(key, val) and delBak(key,
\* val) return True exactly when val is stored at key and take that value
\* away, leaving the others.
C15_DeleteReports ==
    [][ /\ DelKeyOrDup
        /\ \A key \in DgKeys, val \in Sigs :
              (last'.op = "delTibs" /\ DelTibsAt(key, val)) =>
                 IF val \notin Members(getTibs(key))
                 THEN last'.ret = FALSE /\ StoreUnchanged
                 ELSE /\ last'.ret = TRUE
                      /\ getTibs(key)' = Without(getTibs(key), val)
        /\ \A key \in DgKeys, val \in Backers :
              (last'.op = "delBak" /\ DelBakAt(key, val)) =>
                 IF val \notin Members(getBaks(key))
                 THEN last'.ret = FALSE /\ StoreUnchanged
                 ELSE /\ last'.ret = TRUE
                      /\ getBaks(key)' = Without(getBaks(key), val)
      ]_vars

\* delBak has taken one backer of two away
C15_Witness ==
    /\ last.op = "delBak" /\ last.ret = TRUE
    /\ nw = 2
    /\ \E key \in DgKeys : cntBaks(key) = 1

\* C15, as stated: every delete, delTibs(key, val) and delBak(key, val)
\* included, returns False and changes nothing when the key is not
\* present, and on a present key returns True with an empty read after.
C15_DeleteByKey ==
    [][ /\ DelKeyOrDup
        /\ \A key \in DgKeys, val \in Sigs :
              (last'.op = "delTibs" /\ DelTibsAt(key, val)) =>
                 IF getTibs(key) = <<>>
                 THEN last'.ret = FALSE /\ StoreUnchanged
                 ELSE last'.ret = TRUE /\ getTibs(key)' = <<>>
        /\ \A key \in DgKeys, val \in Backers :
              (last'.op = "delBak" /\ DelBakAt(key, val)) =>
                 IF getBaks(key) = <<>>
                 THEN last'.ret = FALSE /\ StoreUnchanged
                 ELSE last'.ret = TRUE /\ getBaks(key)' = <<>>
      ]_vars

(* ======================= frame of the event store ====================== *)

\* C16: an event record of tvts is removed only by delTvt on its key and
\* changed only by setTvt on its key; every other call (on tels, the
\* escrows, ancs, tibs, baks, putTvt on a held key, clonePreIter) leaves
\* the records.
C16_EventStoreFrame ==
    [][ \A k \in DOMAIN tvts :
           /\ k \notin DOMAIN tvts' =>
                 last'.op = "delTvt" /\ DelTvtAt(k)
           /\ (k \in DOMAIN tvts' /\ tvts'[k] # tvts[k]) =>
                 /\ last'.op = "setTvt"
                 /\ \E val \in Raws : SetTvtAt(k, val)
      ]_vars

\* a delTel that removed an entry of the log has left its event record
C16_Witness ==
    /\ last.op = "delTel" /\ last.ret = TRUE
    /\ snKey(1, 0) \notin DOMAIN tels
    /\ dgKey(1, 1) \in DOMAIN tvts

(* ========================= reads of absent data ======================== *)

\* no entry of tels under pre
NoEntry(pre) == \A n \in Ons : snKey(pre, n) \notin DOMAIN tels

\* C17: a read of what is not stored returns an empty result: None from
\* getTvt, getTel, getOot, getTwe, getTae, getAnc; an empty list from
\* getTibs and getBaks; 0 from cntTibs and cntBaks; and getTelItemPreIter
\* and clonePreIter on a prefix without entries yield nothing and end
\* normally.
C17_AbsentReadsEmpty ==
    [][ /\ \A key \in DgKeys :
              /\ (last'.op = "getTvt" /\ GetTvtAt(key) /\ key \notin DOMAIN tvts)
                    => last'.ret = None
              /\ (last'.op = "getAnc" /\ GetAncAt(key) /\ key \notin DOMAIN ancs)
                    => last'.ret = None
              /\ (last'.op = "getTibs" /\ GetTibsAt(key) /\ tibs[key] = {})
                    => last'.ret = <<>>
              /\ (last'.op = "cntTibs" /\ CntTibsAt(key) /\ tibs[key] = {})
                    => last'.ret = 0
              /\ (last'.op = "getBaks" /\ GetBaksAt(key) /\ baks[key] = {})
                    => last'.ret = <<>>
              /\ (last'.op = "cntBaks" /\ CntBaksAt(key) /\ baks[key] = {})
                    => last'.ret = 0
        /\ \A key \in SnKeys :
              /\ (last'.op = "getTel" /\ GetTelAt(key) /\ key \notin DOMAIN tels)
                    => last'.ret = None
              /\ (last'.op = "getOot" /\ GetOotAt(key) /\ key \notin DOMAIN oots)
                    => last'.ret = None
              /\ (last'.op = "getTwe" /\ GetTweAt(key) /\ key \notin DOMAIN twes)
                    => last'.ret = None
              /\ (last'.op = "getTae" /\ GetTaeAt(key) /\ key \notin DOMAIN taes)
                    => last'.ret = None
        /\ \A pre \in Pres, fn \in Ons :
              NoEntry(pre) => getTelItemPreIter(pre, fn) = <<>>
        /\ (it.pc = "created" /\ it'.pc # "created" /\ NoEntry(it.pre)
             /\ ClonePull)
              => it'.pc = "done" /\ it'.out = <<>> /\ it'.err = ""
      ]_vars

\* getTvt has returned None, after a replay of a prefix without entries
\* that ended normally with nothing yielded
C17_Witness ==
    /\ last.op = "getTvt" /\ last.ret = None
    /\ it.pc = "done" /\ it.out = <<>> /\ NoEntry(it.pre)

(* ========================== promotion sweep ============================ *)

\* the entries 0..n of pre are all held, in the canonical index or in the
\* out of order escrow
RunHeld(pre, n) ==
    \A m \in 0..n : snKey(pre, m) \in DOMAIN tels \cup DOMAIN oots

\* C18: when the entries 0..N of a prefix were ingested in reverse order
\* and so are held in the out of order escrow, one sweep invocation moves
\* all of them to the canonical index, with their digests, and leaves none
\* of them in the escrow.
C18_SweepPromotesRun ==
    [][ (last'.op = "sweep" /\ Sweep) =>
           \A pre \in Pres, n \in EscrowOns :
              RunHeld(pre, n) =>
                 \A m \in 0..n :
                    LET k == snKey(pre, m)
                    IN /\ k \in DOMAIN tels' /\ k \notin DOMAIN oots'
                       /\ tels'[k] = IF k \in DOMAIN tels
                                     THEN tels[k] ELSE oots[k]
      ]_vars

\* after three ingestions, one sweep has moved two entries and the run
\* 0..2 of prefix 1 is canonical
C18_Witness ==
    /\ last.op = "sweep" /\ last.ret = 2
    /\ nw = 4
    /\ \A m \in EscrowOns : snKey(1, m) \in DOMAIN tels
    /\ oots = EmptyDb

(* ======================= bulk add to the roster ======================== *)

\* the backers of the roster at key
RosterOf(db, key) == { StripProem(x) : x \in db[key] }

\* C19: putBaks(key, vals) returns True exactly when some value of vals
\* was not in the roster at key before the call, and that value is in the
\* roster afterwards; when it returns False (every value already there,
\* or vals empty) the roster is unchanged.
C19_PutBaksReports ==
    [][ \A key \in WrDgKeys, vals \in BakLists :
           (last'.op = "putBaks" /\ PutBaksAt(key, vals)) =>
              LET new == { vals[i] : i \in 1..Len(vals) } \ RosterOf(baks, key)
              IN /\ last'.ret = (new # {})
                 /\ new \subseteq RosterOf(baks', key)
                 /\ (new = {}) => baks' = baks
      ]_vars

\* a putBaks that returned False on a roster of two backers
C19_Witness ==
    /\ last.op = "putBaks" /\ last.ret = FALSE
    /\ \E key \in WrDgKeys : Cardinality(baks[key]) = 2

(* ========================= counting the index ========================== *)

\* the ordinals of Ons from fn on at which the canonical index holds an
\* entry of pre
OrdinalsFrom(pre, fn) ==
    { n \in Ons : snKey(pre, n) \in DOMAIN tels /\ n >= fn }

\* C20: cntTels(P, fn) returns the number of entries the canonical index
\* holds under prefix P at ordinals >= fn, entries of other prefixes left
\* out; getTelItemPreIter(P, fn) yields that many items, and a
\* clonePreIter(P, fn) that ends without an error has yielded that many
\* messages.
C20_CountMatchesReplay ==
    [][ /\ \A pre \in Pres, fn \in Ons :
              (last'.op = "cntTels" /\ CntTelsAt(pre, fn)) =>
                 /\ last'.ret = Cardinality(OrdinalsFrom(pre, fn))
                 /\ last'.ret = Len(getTelItemPreIter(pre, fn))
        /\ (it'.pc = "done" /\ it.pc # "done" /\ ClonePull) =>
              /\ Len(it'.out) = cntTels(it.pre, it.fn)
              /\ Len(it'.out) = Cardinality(OrdinalsFrom(it.pre, it.fn))
      ]_vars

\* cntTels answered 1 beside a finished replay of one message over an
\* index that holds three entries: two of the prefix, one of them before the
\* start ordinal, and one of the other prefix
C20_Witness ==
    /\ last.op = "cntTels" /\ last.ret = 1
    /\ it.pc = "done" /\ it.fn = 1 /\ Len(it.out) = 1
    /\ Cardinality(DOMAIN tels) = 3
    /\ Cardinality(OrdinalsFrom(it.pre, 0)) = 2

(* ============================ lazy replay ============================== *)

\* the entries the pass has not reached yet
ToCome ==
    IF it.pc = "created" THEN EntriesOf(tels, it.pre, it.fn) ELSE it.items

\* the entry (fn, dig) of pre cannot be framed from what the sub DBs hold
\* now: its event is missing or empty, or its attachments are off the
\* quadlet unit
Offending(pre, e) ==
    LET k == dgKey(pre, e[2])
    IN \/ k \notin DOMAIN tvts
       \/ tvts[k] = <<>>
       \/ Len(WantAtc(Store, k)) % 4 # 0

\* C21: clonePreIter is lazy: a pull reads the event, the signatures and
\* the anchor of the one entry it reaches, when it reaches it. A pull
\* raises exactly when the entry it reaches is an offending one, and keeps
\* what was yielded before; a pull that reaches a sound entry yields the
\* message the sub DBs hold for it at that moment, whatever the later
\* entries reference.
C21_LazyReplay ==
    [][ (it.pc \in {"created", "running"} /\ ToCome # <<>> /\ ClonePull) =>
           LET e == Head(ToCome)
           IN IF Offending(it.pre, e)
              THEN it'.pc = "error" /\ it'.out = it.out
              ELSE /\ it'.pc = "running"
                   /\ it'.out = Append(it.out, WantMsg(Store, dgKey(it.pre, e[2])))
      ]_vars

\* the consumer holds one message, pulled without error, and the entry
\* the next pull would reach is an offending one
C21_Witness ==
    /\ it.pc = "running" /\ Len(it.out) = 1 /\ it.err = ""
    /\ it.items # <<>>
    /\ Offending(it.pre, Head(it.items))

====
